---- MODULE Spec2Model ----
(***************************************************************************)
(* Container lifecycle termination of the daemon: ContainerRm,             *)
(* cleanupContainer, onlyCleanupContainer (both build variants of          *)
(* delete), ContainerStop / containerStop and Kill / killWithSignal.       *)
(* One container, two concurrent API callers, the OS process of the        *)
(* container and the daemon's exit-event handling as the environment.      *)
(***************************************************************************)
EXTENDS Integers, FiniteSets, Sequences, TLC

\* ------------------------------------------------------------------ bounds
\* Total number of API calls (ContainerRm / ContainerStop) the callers start.
MaxCalls == 2

\* Background waiters of killWithSignal that are tracked individually; more
\* of them behave as the tracked ones do (they all run the same wait).
MaxWaiters == 1

\* ------------------------------------------------------- program constants
\* cleanupContainer: var stopTimeout = 3
RmStopTimeout == 3

\* The two concurrent callers (goroutines serving API requests).
Procs == {1, 2}

CID == "c1"
LinkName == "/parent/c1"
\* Names a caller can pass: the container id and its link name.
RmNames == {CID, LinkName}

\* options.Timeout of ContainerStop: <<>> is nil (use the container's), <<t>> is t seconds.
TimeoutOpts == {<<>>, <<-1>>}
\* options.Signal of ContainerStop: "" (use the container's) or a name.
SignalOpts == {"", "BOGUS"}
ValidSignals == {"SIGKILL", "SIGTERM"}

VARIABLES
    platform,           \* build variant: "unix" (delete.go) or "windows"
    storage,            \* what the container was created with: "layer", "lease", "none"
    ctr,                \* the container.Container record (State + Config)
    containers,         \* daemon.containers: ids in the in-memory registry
    containersReplica,  \* daemon.containersReplica: ids in the metadata store
    linkIndex,          \* daemon.linkIndex: link names that reference the container
    names,              \* reserved names (released by daemon.releaseName)
    rootExists,         \* container.Root exists on disk
    leases,             \* lease ids held in the containerd lease service
    procAlive,          \* the container's OS process exists
    sigkilled,          \* the OS process has been sent SIGKILL
    lockHolder,         \* goroutine holding container.Lock(), 0 if free
    waiters,            \* running background waiters spawned by killWithSignal
    events,             \* events logged: "destroy" and "stop" counts, signals of "kill" events
    layerReleases,      \* successful imageService.ReleaseLayer calls
    leaseDeletes,       \* successful lease Delete calls
    nameReleases,       \* daemon.releaseName calls on the link name, by rmLink
                        \* (link) and by the two cleanups (teardown)
    calls,              \* API calls started so far
    pr                  \* per caller: position and locals

vars == <<platform, storage, ctr, containers, containersReplica, linkIndex, names,
          rootExists, leases, procAlive, sigkilled, lockHolder, waiters, events,
          layerReleases, leaseDeletes, nameReleases, calls, pr>>

cfgVars == <<platform, storage>>
regVars == <<containers, containersReplica, linkIndex, names>>
osVars  == <<procAlive, sigkilled>>
cntVars == <<layerReleases, leaseDeletes, nameReleases>>

\* ------------------------------------------------------------ collaborators

\* daemon.UsesSnapshotter()
UsesSnapshotter == storage = "lease"

\* daemon.IsShuttingDown(): the daemon is serving API requests.
IsShuttingDown == FALSE

\* daemon.GetContainer(name): resolves an id or a reserved name to a
\* container that is in the in-memory registry.
GetContainer(name) ==
    /\ CID \in containers
    /\ (name = CID \/ name \in names)

\* container.StopSignal(): the configured stop signal, SIGTERM by default.
StopSignal(c) == IF c.StopSignal = "" THEN "SIGTERM" ELSE c.StopSignal

\* State.SetRemovalInProgress: test-and-set, TRUE if it was already set.
SetRemovalInProgress(c) ==
    [inProgress |-> c.RemovalInProgress, ctr |-> [c EXCEPT !.RemovalInProgress = TRUE]]

\* State.ResetRemovalInProgress
ResetRemovalInProgress(c) == [c EXCEPT !.RemovalInProgress = FALSE]

\* State.SetRemovalError(err) / Container.OnlySetRemovalError(err): records the
\* outcome of a removal; a nil error is what marks the container removed.
SetRemovalError(c, err) ==
    [c EXCEPT !.RemovalError = err, !.Removed = IF err = "nil" THEN TRUE ELSE @]

\* State.SetRemoved() is SetRemovalError(nil).
SetRemoved(c) == SetRemovalError(c, "nil")

\* The daemon's exit handling (handleContainerExit / SetStopped): the
\* container becomes not running and its pid is cleared.
SetStopped(c) ==
    [c EXCEPT !.Running = FALSE, !.Paused = FALSE, !.Restarting = FALSE, !.Pid = 0]

\* container.CheckpointTo(daemon.containersReplica): writes the container
\* under its root and saves it in the store; with the root gone the write
\* fails with "not exist", which the callers tolerate, and nothing is saved.
CheckpointTo == IF rootExists THEN containersReplica \cup {CID} ELSE containersReplica

\* pidExists(pid): whether the OS process exists (no process has pid 0).
pidExists(pid) == pid > 0 /\ procAlive

\* The unix pidExists probes with process.Signal(os.Kill): a live process
\* is sent SIGKILL by the probe itself. The windows one only enumerates.
pidExistsKills(pid) == platform = "unix" /\ pidExists(pid)

\* --------------------------------------------------------------- callers

IdleProc ==
    [pc |-> "idle", op |-> "none", name |-> CID, force |-> FALSE, rmLink |-> FALSE,
     path |-> "none", T |-> 0, sig |-> "", res |-> "none",
     killRet |-> "none", stopRet |-> "none", kerr |-> "nil", serr |-> "nil",
     kills |-> 0, timedOut |-> FALSE, torn |-> FALSE, retry |-> FALSE, ovl |-> FALSE,
     ocForce |-> TRUE, cancelled |-> FALSE]

\* What is kept of a call once its locals are dead: the entry point, the
\* path it took, whether it tore the container down, the result.
Outcome(q, pc, res) ==
    [IdleProc EXCEPT !.pc = pc, !.op = q.op, !.path = q.path, !.torn = q.torn,
                     !.retry = q.retry, !.ovl = q.ovl, !.res = res]

\* The call has returned res.
Done(q, res) == Outcome(q, "done", res)

\* ContainerRm returns res on the guarded path: the deferred
\* ResetRemovalInProgress is still to run.
GuardedReturn(q, res) == Outcome(q, "rm_ret", res)

\* A call is in flight: started and not yet returned.
InFlight(q) == q.pc \notin {"idle", "done"}

\* Caller p is free to take the next request: it has no call in flight and
\* no free caller comes before it (free callers are interchangeable).
Free(p) ==
    /\ ~InFlight(pr[p])
    /\ \A x \in Procs : x < p => InFlight(pr[x])

\* Caller p starts a call as record q; calls in flight at that moment
\* overlap it in time.
Start(p, q) ==
    pr' = [x \in Procs |->
             IF x = p THEN [q EXCEPT !.ovl = \E y \in Procs \ {p} : InFlight(pr[y])]
             ELSE IF InFlight(pr[x]) /\ InFlight(q) THEN [pr[x] EXCEPT !.ovl = TRUE]
             ELSE pr[x]]

Set(p, r) == pr' = [pr EXCEPT ![p] = r]
Goto(p, l) == pr' = [pr EXCEPT ![p].pc = l]

LockFree == lockHolder = 0

Min(a, b) == IF a < b THEN a ELSE b

InitCtr(running, layer) ==
    [Pid |-> IF running THEN 1 ELSE 0, Running |-> running, Paused |-> FALSE,
     Restarting |-> FALSE, Dead |-> FALSE, RemovalInProgress |-> FALSE,
     Removed |-> FALSE, RemovalError |-> "nil", RWLayer |-> layer,
     ExitOnNext |-> FALSE, HasBeenManuallyStopped |-> FALSE,
     StopSignal |-> "", StopTimeout |-> 1]

Init ==
    /\ platform \in {"unix", "windows"}
    /\ storage \in {"layer", "lease", "none"}
    /\ \E running \in BOOLEAN :
         /\ ctr = InitCtr(running, storage = "layer")
         /\ procAlive = running
    /\ containers = {CID}
    /\ containersReplica = {CID}
    /\ linkIndex = {LinkName}
    /\ names = {CID, LinkName}
    /\ rootExists = TRUE
    /\ leases = IF storage = "lease" THEN {CID} ELSE {}
    /\ sigkilled = FALSE
    /\ lockHolder = 0
    /\ waiters = 0
    /\ events = [destroy |-> 0, stop |-> 0, kill |-> {}]
    /\ layerReleases = 0
    /\ leaseDeletes = 0
    /\ nameReleases = [link |-> 0, teardown |-> 0]
    /\ calls = 0
    /\ pr = [p \in Procs |-> IdleProc]

\* ----------------------------------------------------------- environment

\* The container's process exits (on its own, or from a signal it was sent).
ProcessExit ==
    /\ procAlive
    /\ procAlive' = FALSE
    /\ UNCHANGED <<cfgVars, ctr, regVars, rootExists, leases, sigkilled, lockHolder,
                   waiters, events, cntVars, calls, pr>>

\* The daemon processes the exit event of the dead process.
ExitEvent ==
    /\ ~procAlive
    /\ ctr.Running
    /\ LockFree
    /\ ctr' = SetStopped(ctr)
    /\ UNCHANGED <<cfgVars, regVars, rootExists, leases, osVars, lockHolder, waiters,
                   events, cntVars, calls, pr>>

\* killWithSignal's background goroutine: its wait saw the container stop.
WaiterDone ==
    /\ waiters > 0
    /\ ~ctr.Running
    /\ waiters' = waiters - 1
    /\ UNCHANGED <<cfgVars, ctr, regVars, rootExists, leases, osVars, lockHolder,
                   events, cntVars, calls, pr>>

\* A faulty WaiterTimeout: the goroutine gives up when its wait times out
\* and daemon.handleContainerExit is not called.
WaiterTimeoutGivesUp ==
    /\ waiters > 0
    /\ ctr.Running
    /\ LockFree
    /\ waiters' = waiters - 1
    /\ UNCHANGED <<cfgVars, ctr, regVars, rootExists, leases, osVars, lockHolder,
                   events, cntVars, calls, pr>>

\* killWithSignal's background goroutine: the wait timed out, so it drives
\* daemon.handleContainerExit itself.
WaiterTimeout ==
    /\ waiters > 0
    /\ ctr.Running
    /\ LockFree
    /\ waiters' = waiters - 1
    /\ ctr' = SetStopped(ctr)
    /\ UNCHANGED <<cfgVars, regVars, rootExists, leases, osVars, lockHolder,
                   events, cntVars, calls, pr>>

\* ------------------------------------------------------------------ kill.go

\* A faulty killWithSignal: the check of container.Restarting is left out.
killWithSignalNotSkipped(c, stopSignal, rtFault) ==
    LET none == [err |-> "nil", ctr |-> c, delivered |-> FALSE, spawn |-> FALSE,
                 resume |-> FALSE, ev |-> FALSE, saved |-> FALSE]
        match == IF c.StopSignal # "" /\ stopSignal # "SIGKILL"
                 THEN c.StopSignal = stopSignal
                 ELSE TRUE
        c1 == [c EXCEPT !.ExitOnNext = @ \/ match]
        unpause == match /\ c.Paused
        c2 == IF ~IsShuttingDown THEN [c1 EXCEPT !.HasBeenManuallyStopped = TRUE] ELSE c1
        task == [none EXCEPT !.ctr = c2, !.saved = ~IsShuttingDown]
    IN  IF ~c.Running
        THEN [none EXCEPT !.err = "ErrNotRunning"]
        ELSE IF ~procAlive
        THEN [task EXCEPT !.spawn = TRUE, !.ev = TRUE]
        ELSE IF rtFault
        THEN [task EXCEPT !.err = "ErrCannotKill"]
        ELSE [task EXCEPT !.delivered = TRUE, !.resume = unpause, !.ev = TRUE]

\* A faulty killWithSignal: the exit-on-next flag is armed whatever the
\* signal is.
killWithSignalAlwaysArms(c, stopSignal, rtFault) ==
    LET none == [err |-> "nil", ctr |-> c, delivered |-> FALSE, spawn |-> FALSE,
                 resume |-> FALSE, ev |-> FALSE, saved |-> FALSE]
        c1 == [c EXCEPT !.ExitOnNext = TRUE]
        unpause == c.Paused
        c2 == IF ~IsShuttingDown THEN [c1 EXCEPT !.HasBeenManuallyStopped = TRUE] ELSE c1
        task == [none EXCEPT !.ctr = c2, !.saved = ~IsShuttingDown]
    IN  IF ~c.Running
        THEN [none EXCEPT !.err = "ErrNotRunning"]
        ELSE IF c.Restarting
        THEN task
        ELSE IF ~procAlive
        THEN [task EXCEPT !.spawn = TRUE, !.ev = TRUE]
        ELSE IF rtFault
        THEN [task EXCEPT !.err = "ErrCannotKill"]
        ELSE [task EXCEPT !.delivered = TRUE, !.resume = unpause, !.ev = TRUE]

\* killWithSignal(container, stopSignal), run under container.Lock().
\* rtFault: the runtime fails to deliver the signal to a live task.
\* Result: the error, the container afterwards, whether the signal reached
\* the task, whether the background waiter was started, whether the task
\* was resumed, whether the "kill" event was logged and whether the
\* container was saved (CheckpointTo).
killWithSignal(c, stopSignal, rtFault) ==
    LET none == [err |-> "nil", ctr |-> c, delivered |-> FALSE, spawn |-> FALSE,
                 resume |-> FALSE, ev |-> FALSE, saved |-> FALSE]
        match == IF c.StopSignal # "" /\ stopSignal # "SIGKILL"
                 THEN c.StopSignal = stopSignal
                 ELSE TRUE
        c1 == [c EXCEPT !.ExitOnNext = @ \/ match]
        unpause == match /\ c.Paused
        c2 == IF ~IsShuttingDown THEN [c1 EXCEPT !.HasBeenManuallyStopped = TRUE] ELSE c1
        task == [none EXCEPT !.ctr = c2, !.saved = ~IsShuttingDown]
    IN  IF ~c.Running
        THEN [none EXCEPT !.err = "ErrNotRunning"]
        ELSE IF c.Restarting
        THEN task
        ELSE IF ~procAlive
        THEN [task EXCEPT !.spawn = TRUE, !.ev = TRUE]
        ELSE IF rtFault
        THEN [task EXCEPT !.err = "ErrCannotKill"]
        ELSE [task EXCEPT !.delivered = TRUE, !.resume = unpause, !.ev = TRUE]

\* killPossiblyDeadProcess: a not-found error becomes errNoSuchProcess.
killPossiblyDeadProcess(c, sig, rtFault) ==
    LET r == killWithSignal(c, sig, rtFault)
    IN  IF r.err = "NotFound" THEN [r EXCEPT !.err = "ErrNoSuchProcess"] ELSE r

\* The state after a killWithSignal call with result r; stopLogged: the
\* call also made containerStop return nil.
ApplySignal(r, sig, stopLogged) ==
    /\ ctr' = r.ctr
    /\ containersReplica' = IF r.saved THEN CheckpointTo ELSE containersReplica
    /\ waiters' = IF r.spawn THEN Min(waiters + 1, MaxWaiters) ELSE waiters
    /\ sigkilled' = (sigkilled \/ (r.delivered /\ sig = "SIGKILL"))
    /\ events' = [events EXCEPT !.kill = IF r.ev THEN @ \cup {sig} ELSE @,
                                !.stop = IF stopLogged THEN @ + 1 ELSE @]

\* cleanupContainer: daemon.containerStop(ctx, container, StopOptions{Timeout: &stopTimeout})
CallStop(q) ==
    [q EXCEPT !.pc = "s_start", !.stopRet = "cl", !.T = RmStopTimeout, !.sig = "",
              !.kills = 0, !.timedOut = FALSE, !.kerr = "nil", !.killRet = "none"]

\* The caller's position after containerStop returned err.
AfterStop(q, err) ==
    IF q.stopRet = "cl"
    THEN IF err = "nil"
         THEN [q EXCEPT !.pc = "cl_dead", !.stopRet = "none", !.T = 0, !.sig = "",
                        !.kills = 0, !.timedOut = FALSE, !.kerr = "nil", !.serr = "nil",
                        !.killRet = "none"]
         ELSE GuardedReturn(q, err)
    ELSE Done(q, IF err = "nil" THEN "ok" ELSE "System")

\* The caller's position after Kill returned err: cleanupContainer gives
\* up or goes on to containerStop; containerStop waits 2 more seconds or
\* returns nil.
AfterKill(q, err) ==
    IF q.killRet = "cl"
    THEN IF err # "nil" THEN GuardedReturn(q, "ErrKill") ELSE CallStop(q)
    ELSE IF err # "nil"
         THEN [q EXCEPT !.pc = "s_wait2", !.kerr = err]
         ELSE AfterStop(q, "nil")

\* containerStop's deferred function logs "stop" when it returns nil, as
\* it does when its Kill returned nil.
StopLogged(q, kerr) == q.killRet = "stop" /\ kerr = "nil"

\* Kill returns kerr to its caller.
ReturnFromKill(p, kerr) ==
    /\ Set(p, AfterKill(pr[p], kerr))
    /\ events' = [events EXCEPT !.stop = IF StopLogged(pr[p], kerr) THEN @ + 1 ELSE @]

\* Kill: if !container.IsRunning() return errNotRunning
KillStart(p) ==
    /\ pr[p].pc = "k_start"
    /\ LockFree
    /\ IF ~ctr.Running
       THEN ReturnFromKill(p, "ErrNotRunning")
       ELSE Goto(p, "k_sig") /\ UNCHANGED events
    /\ UNCHANGED <<cfgVars, ctr, regVars, rootExists, leases, osVars, lockHolder, waiters,
                   cntVars, calls>>

\* Kill: 1. Send SIGKILL; errNoSuchProcess is success.
KillSignal(p) ==
    /\ pr[p].pc = "k_sig"
    /\ LockFree
    /\ \E rtFault \in BOOLEAN :
         LET r == killPossiblyDeadProcess(ctr, "SIGKILL", rtFault)
             gone == r.err = "ErrNoSuchProcess"
         IN  /\ ApplySignal(r, "SIGKILL", gone /\ StopLogged(pr[p], "nil"))
             /\ IF gone
                THEN Set(p, AfterKill(pr[p], "nil"))
                ELSE Goto(p, "k_wait1")
    /\ UNCHANGED <<cfgVars, containers, linkIndex, names, rootExists, leases, procAlive,
                   lockHolder, cntVars, calls>>

\* A faulty KillWait1: the result of the first wait is dropped and the
\* process is always signalled directly.
KillWait1AlwaysDirect(p) ==
    /\ pr[p].pc = "k_wait1"
    /\ LockFree
    /\ Goto(p, "k_direct")
    /\ UNCHANGED <<cfgVars, ctr, regVars, rootExists, leases, osVars, lockHolder, waiters,
                   events, cntVars, calls>>

\* Kill: the first container.Wait: it sees the container not running, or
\* it times out with the container still running.
KillWait1(p) ==
    /\ pr[p].pc = "k_wait1"
    /\ LockFree
    /\ IF ~ctr.Running
       THEN ReturnFromKill(p, "nil")
       ELSE Goto(p, "k_direct") /\ UNCHANGED events
    /\ UNCHANGED <<cfgVars, ctr, regVars, rootExists, leases, osVars, lockHolder, waiters,
                   cntVars, calls>>

\* killProcessDirectly(container): signals the OS process itself.
\* "nil", "ErrNoSuchProcess" (the process is gone) or, with fault, a
\* system error (the process cannot be killed).
killProcessDirectly(c, fault) ==
    IF c.Pid = 0 THEN "nil"
    ELSE IF ~procAlive THEN "ErrNoSuchProcess"
    ELSE IF fault THEN "ErrSystem"
    ELSE "nil"

\* Kill: killProcessDirectly after the first wait timed out;
\* errNoSuchProcess is success, another error is returned.
KillDirect(p) ==
    /\ pr[p].pc = "k_direct"
    /\ LockFree
    /\ \E fault \in BOOLEAN :
         LET err == killProcessDirectly(ctr, fault)
         IN  /\ sigkilled' = (sigkilled \/ (ctr.Pid > 0 /\ procAlive))
             /\ IF err = "ErrNoSuchProcess"
                THEN ReturnFromKill(p, "nil")
                ELSE IF err # "nil"
                THEN ReturnFromKill(p, err)
                ELSE Goto(p, "k_wait2") /\ UNCHANGED events
    /\ UNCHANGED <<cfgVars, ctr, regVars, rootExists, leases, procAlive, lockHolder,
                   waiters, cntVars, calls>>

\* A faulty KillWait2: the result of the last wait is dropped and nil is
\* returned.
KillWait2IgnoresTimeout(p) ==
    /\ pr[p].pc = "k_wait2"
    /\ LockFree
    /\ ReturnFromKill(p, "nil")
    /\ UNCHANGED <<cfgVars, ctr, regVars, rootExists, leases, osVars, lockHolder, waiters,
                   cntVars, calls>>

\* Kill: the last wait: the container is not running, or "tried to kill
\* container, but did not receive an exit event".
KillWait2(p) ==
    /\ pr[p].pc = "k_wait2"
    /\ LockFree
    /\ IF ~ctr.Running
       THEN ReturnFromKill(p, "nil")
       ELSE ReturnFromKill(p, "ErrNoExit")
    /\ UNCHANGED <<cfgVars, ctr, regVars, rootExists, leases, osVars, lockHolder, waiters,
                   cntVars, calls>>

\* ------------------------------------------------------------------ stop.go

\* containerStop returns err to its caller, logging "stop" if logged.
ReturnFromStop(p, err, logged) ==
    /\ Set(p, AfterStop(pr[p], err))
    /\ events' = [events EXCEPT !.stop = IF logged THEN @ + 1 ELSE @]

\* containerStop: not running, or options.Signal does not parse: return
\* before the deferred "stop" event is set up; else go on to the signal.
StopStart(p) ==
    /\ pr[p].pc = "s_start"
    /\ LockFree
    /\ IF ~ctr.Running
       THEN ReturnFromStop(p, "nil", FALSE)
       ELSE IF pr[p].sig # "" /\ pr[p].sig \notin ValidSignals
       THEN ReturnFromStop(p, "InvalidParameter", FALSE)
       ELSE /\ Set(p, [pr[p] EXCEPT !.pc = "s_sig",
                                    !.sig = IF @ = "" THEN StopSignal(ctr) ELSE @])
            /\ UNCHANGED events
    /\ UNCHANGED <<cfgVars, ctr, regVars, rootExists, leases, osVars, lockHolder, waiters,
                   cntVars, calls>>

\* containerStop: 1. Send a stop signal
StopSignalStep(p) ==
    /\ pr[p].pc = "s_sig"
    /\ LockFree
    /\ \E rtFault \in BOOLEAN :
         LET r == killPossiblyDeadProcess(ctr, pr[p].sig, rtFault)
         IN  /\ ApplySignal(r, pr[p].sig, FALSE)
             /\ Set(p, [pr[p] EXCEPT !.pc = "s_wait", !.serr = r.err, !.sig = ""])
    /\ UNCHANGED <<cfgVars, containers, linkIndex, names, rootExists, leases, procAlive,
                   lockHolder, cntVars, calls>>

\* A faulty StopWait: the wait of a negative timeout ends when the
\* context of the caller is cancelled, and the error of the signal is
\* returned.
StopWaitHonorsCancel(p) ==
    /\ pr[p].pc = "s_wait"
    /\ LockFree
    /\ ~ctr.Running \/ pr[p].T >= 0 \/ pr[p].cancelled
    /\ IF ~ctr.Running
       THEN ReturnFromStop(p, "nil", TRUE)
       ELSE IF pr[p].T < 0
       THEN ReturnFromStop(p, pr[p].serr, FALSE)
       ELSE /\ Set(p, [pr[p] EXCEPT !.pc = "k_start", !.killRet = "stop",
                                    !.timedOut = TRUE, !.kills = @ + 1])
            /\ UNCHANGED events
    /\ UNCHANGED <<cfgVars, ctr, regVars, rootExists, leases, osVars, lockHolder, waiters,
                   cntVars, calls>>

\* A faulty StopWait: the deferred "stop" event is left out.
StopWaitNotLogged(p) ==
    /\ pr[p].pc = "s_wait"
    /\ LockFree
    /\ ~ctr.Running \/ pr[p].T >= 0
    /\ IF ~ctr.Running
       THEN ReturnFromStop(p, "nil", FALSE)
       ELSE IF pr[p].T < 0
       THEN ReturnFromStop(p, pr[p].serr, FALSE)
       ELSE /\ Set(p, [pr[p] EXCEPT !.pc = "k_start", !.killRet = "stop",
                                    !.timedOut = TRUE, !.kills = @ + 1])
            /\ UNCHANGED events
    /\ UNCHANGED <<cfgVars, ctr, regVars, rootExists, leases, osVars, lockHolder, waiters,
                   cntVars, calls>>

\* A faulty StopWait: the wait of a negative timeout expires as well and
\* falls back to Kill.
StopWaitAlwaysExpires(p) ==
    /\ pr[p].pc = "s_wait"
    /\ LockFree
    /\ IF ~ctr.Running
       THEN ReturnFromStop(p, "nil", TRUE)
       ELSE /\ Set(p, [pr[p] EXCEPT !.pc = "k_start", !.killRet = "stop",
                                    !.timedOut = TRUE, !.kills = @ + 1])
            /\ UNCHANGED events
    /\ UNCHANGED <<cfgVars, ctr, regVars, rootExists, leases, osVars, lockHolder, waiters,
                   cntVars, calls>>

\* containerStop: the wait sees the container not running: return nil. Or
\* it ends with the container still running: the context of a negative
\* timeout has no deadline and is never cancelled, so only a non-negative
\* timeout expires; then fall back to Kill.
StopWait(p) ==
    /\ pr[p].pc = "s_wait"
    /\ LockFree
    /\ ~ctr.Running \/ pr[p].T >= 0
    /\ IF ~ctr.Running
       THEN ReturnFromStop(p, "nil", TRUE)
       ELSE IF pr[p].T < 0
       THEN ReturnFromStop(p, pr[p].serr, FALSE)
       ELSE /\ Set(p, [pr[p] EXCEPT !.pc = "k_start", !.killRet = "stop",
                                    !.timedOut = TRUE, !.kills = @ + 1])
            /\ UNCHANGED events
    /\ UNCHANGED <<cfgVars, ctr, regVars, rootExists, leases, osVars, lockHolder, waiters,
                   cntVars, calls>>

\* A faulty StopWait2: nil is returned whether or not the container
\* stopped in the 2 more seconds.
StopWait2IgnoresTimeout(p) ==
    /\ pr[p].pc = "s_wait2"
    /\ LockFree
    /\ ReturnFromStop(p, "nil", TRUE)
    /\ UNCHANGED <<cfgVars, ctr, regVars, rootExists, leases, osVars, lockHolder, waiters,
                   cntVars, calls>>

\* containerStop: Kill failed; 2 more seconds: the container stopped and
\* nil is returned, or it did not and the error of Kill is returned.
StopWait2(p) ==
    /\ pr[p].pc = "s_wait2"
    /\ LockFree
    /\ IF ~ctr.Running
       THEN ReturnFromStop(p, "nil", TRUE)
       ELSE ReturnFromStop(p, pr[p].kerr, FALSE)
    /\ UNCHANGED <<cfgVars, ctr, regVars, rootExists, leases, osVars, lockHolder, waiters,
                   cntVars, calls>>

\* The context that the caller of ContainerStop passed is cancelled while
\* the call is in flight. containerStop takes it as "_" and waits on a
\* context.Background() of its own.
CancelRequest(p) ==
    /\ pr[p].op = "ContainerStop"
    /\ InFlight(pr[p])
    /\ ~pr[p].cancelled
    /\ pr' = [pr EXCEPT ![p].cancelled = TRUE]
    /\ UNCHANGED <<cfgVars, ctr, regVars, rootExists, leases, osVars, lockHolder, waiters,
                   events, cntVars, calls>>

\* ContainerStop(ctx, name, options): resolve the container.
ContainerStop(p) ==
    /\ Free(p)
    /\ calls < MaxCalls
    /\ calls' = calls + 1
    /\ \E name \in RmNames, topt \in TimeoutOpts, sig \in SignalOpts :
         LET q == [IdleProc EXCEPT !.op = "ContainerStop", !.sig = sig,
                       !.T = IF topt = <<>> THEN ctr.StopTimeout ELSE topt[1]]
         IN  IF ~GetContainer(name)
             THEN Start(p, Done(q, "NotFound"))
             ELSE Start(p, [q EXCEPT !.pc = "cs_chk"])
    /\ UNCHANGED <<cfgVars, ctr, regVars, rootExists, leases, osVars, lockHolder, waiters,
                   events, cntVars>>

\* ContainerStop: if !ctr.IsRunning() || ctr.Pid == 0 { return nil }
ContainerStopCheck(p) ==
    /\ pr[p].pc = "cs_chk"
    /\ LockFree
    /\ IF ~ctr.Running \/ ctr.Pid = 0
       THEN Set(p, Done(pr[p], "ok"))
       ELSE Goto(p, "cs_probe")
    /\ UNCHANGED <<cfgVars, ctr, regVars, rootExists, leases, osVars, lockHolder, waiters,
                   events, cntVars, calls>>

\* ContainerStop: if !pidExists(ctr.Pid) { return nil }; else containerStop.
ContainerStopProbe(p) ==
    /\ pr[p].pc = "cs_probe"
    /\ sigkilled' = (sigkilled \/ pidExistsKills(ctr.Pid))
    /\ IF ~pidExists(ctr.Pid)
       THEN Set(p, Done(pr[p], "ok"))
       ELSE Set(p, [pr[p] EXCEPT !.pc = "s_start", !.stopRet = "cs"])
    /\ UNCHANGED <<cfgVars, ctr, regVars, rootExists, leases, procAlive, lockHolder,
                   waiters, events, cntVars, calls>>

\* ---------------------------------------------------------------- delete.go

\* path.Split(name) of rmLink, after the leading "/" is added.
ParentOf(name) == IF name = CID THEN "/" ELSE "/parent"

\* The call goes into onlyCleanupContainer(ctr, config, force).
FastPath(q, force) ==
    [Outcome(q, "oc_dead", "none") EXCEPT !.path = "fast", !.ocForce = force]

\* ContainerRm(name, config): resolve the container. The name is only
\* used again by rmLink. retry: the call is a removal of the container,
\* which is not running, and the last removal failed in ReleaseLayer.
ContainerRm(p) ==
    /\ Free(p)
    /\ calls < MaxCalls
    /\ calls' = calls + 1
    /\ \E name \in RmNames, force \in BOOLEAN, rmLink \in BOOLEAN :
         LET q == [IdleProc EXCEPT !.op = "ContainerRm", !.force = force, !.rmLink = rmLink,
                                   !.name = IF rmLink THEN name ELSE CID]
         IN  IF ~GetContainer(name)
             THEN Start(p, Done(q, "NotFound"))
             ELSE Start(p, [q EXCEPT !.pc = "rm_pid",
                                     !.retry = /\ ctr.RemovalError = "ErrLayer"
                                               /\ ~rmLink
                                               /\ ~ctr.Running])
    /\ UNCHANGED <<cfgVars, ctr, regVars, rootExists, leases, osVars, lockHolder, waiters,
                   events, cntVars>>

\* ContainerRm: if ctr.Pid == 0, onlyCleanupContainer.
RmPid(p) ==
    /\ pr[p].pc = "rm_pid"
    /\ IF ctr.Pid = 0
       THEN Set(p, FastPath(pr[p], TRUE))
       ELSE IF platform = "unix"
       THEN Goto(p, "rm_probe")
       ELSE Goto(p, "rm_guard")
    /\ UNCHANGED <<cfgVars, ctr, regVars, rootExists, leases, osVars, lockHolder, waiters,
                   events, cntVars, calls>>

\* ContainerRm (delete.go only): if ctr.Pid > 0 && !pidExists(ctr.Pid),
\* onlyCleanupContainer.
RmProbe(p) ==
    /\ pr[p].pc = "rm_probe"
    /\ sigkilled' = (sigkilled \/ pidExistsKills(ctr.Pid))
    /\ IF ctr.Pid > 0 /\ ~pidExists(ctr.Pid)
       THEN Set(p, FastPath(pr[p], TRUE))
       ELSE Goto(p, "rm_guard")
    /\ UNCHANGED <<cfgVars, ctr, regVars, rootExists, leases, procAlive, lockHolder,
                   waiters, events, cntVars, calls>>

\* A faulty RmGuard: the result of SetRemovalInProgress is ignored, so a
\* call goes on although a removal is in progress.
RmGuardIgnoresResult(p) ==
    /\ pr[p].pc = "rm_guard"
    /\ LockFree
    /\ ctr' = SetRemovalInProgress(ctr).ctr
    /\ Set(p, [pr[p] EXCEPT !.pc = "rm_reget", !.path = "guard"])
    /\ UNCHANGED <<cfgVars, regVars, rootExists, leases, osVars, lockHolder, waiters,
                   events, cntVars, calls>>

\* A faulty RmGuard: the flag is tested but never set.
RmGuardNeverSets(p) ==
    /\ pr[p].pc = "rm_guard"
    /\ LockFree
    /\ IF ctr.RemovalInProgress
       THEN Set(p, Done([pr[p] EXCEPT !.path = "refused"], "ErrInProgress"))
       ELSE Set(p, [pr[p] EXCEPT !.pc = "rm_reget", !.path = "guard"])
    /\ UNCHANGED <<cfgVars, ctr, regVars, rootExists, leases, osVars, lockHolder, waiters,
                   events, cntVars, calls>>

\* ContainerRm: if inProgress := ctr.SetRemovalInProgress(); inProgress
\* return Conflict; defer ctr.ResetRemovalInProgress()
RmGuard(p) ==
    /\ pr[p].pc = "rm_guard"
    /\ LockFree
    /\ LET r == SetRemovalInProgress(ctr)
       IN  IF r.inProgress
           THEN /\ Set(p, Done([pr[p] EXCEPT !.path = "refused"], "ErrInProgress"))
                /\ UNCHANGED ctr
           ELSE /\ Set(p, [pr[p] EXCEPT !.pc = "rm_reget", !.path = "guard"])
                /\ ctr' = r.ctr
    /\ UNCHANGED <<cfgVars, regVars, rootExists, leases, osVars, lockHolder, waiters,
                   events, cntVars, calls>>

\* A faulty RmReget: the check that the container is still registered is
\* left out.
RmRegetNoCheck(p) ==
    /\ pr[p].pc = "rm_reget"
    /\ IF pr[p].rmLink
       THEN Goto(p, "rm_link")
       ELSE Goto(p, "cl_running")
    /\ UNCHANGED <<cfgVars, ctr, regVars, rootExists, leases, osVars, lockHolder, waiters,
                   events, cntVars, calls>>

\* ContainerRm: the container was deregistered since Get: return nil;
\* else rmLink or cleanupContainer.
RmReget(p) ==
    /\ pr[p].pc = "rm_reget"
    /\ IF CID \notin containers
       THEN Set(p, GuardedReturn(pr[p], "ok"))
       ELSE IF pr[p].rmLink
       THEN Goto(p, "rm_link")
       ELSE Goto(p, "cl_running")
    /\ UNCHANGED <<cfgVars, ctr, regVars, rootExists, leases, osVars, lockHolder, waiters,
                   events, cntVars, calls>>

\* rmLink(container, name): the default name cannot be removed; the id of
\* the parent is looked up in the store ("unknown": the lookup fails); the
\* link name is released, and unlinked if the parent container is found
\* ("found") and not if it is gone ("gone").
rmLink(p) ==
    /\ pr[p].pc = "rm_link"
    /\ \E parent \in {"unknown", "gone", "found"} :
         IF ParentOf(pr[p].name) = "/"
         THEN /\ Set(p, GuardedReturn(pr[p], "ErrDefaultLink"))
              /\ UNCHANGED <<names, linkIndex, nameReleases>>
         ELSE IF parent = "unknown"
         THEN /\ Set(p, GuardedReturn(pr[p], "ErrNoParent"))
              /\ UNCHANGED <<names, linkIndex, nameReleases>>
         ELSE /\ Set(p, GuardedReturn(pr[p], "ok"))
              /\ names' = names \ {pr[p].name}
              /\ nameReleases' = [nameReleases EXCEPT !.link = @ + 1]
              /\ linkIndex' = IF parent = "found" THEN linkIndex \ {pr[p].name}
                                                  ELSE linkIndex
    /\ UNCHANGED <<cfgVars, ctr, containers, containersReplica, rootExists, leases, osVars,
                   lockHolder, waiters, events, layerReleases, leaseDeletes, calls>>

\* A faulty RmReturn: the deferred ResetRemovalInProgress is left out.
RmReturnKeepsGuard(p) ==
    /\ pr[p].pc = "rm_ret"
    /\ LockFree
    /\ Goto(p, "done")
    /\ UNCHANGED <<cfgVars, ctr, regVars, rootExists, leases, osVars, lockHolder, waiters,
                   events, cntVars, calls>>

\* ContainerRm returns on the guarded path: the deferred
\* ctr.ResetRemovalInProgress() runs.
RmReturn(p) ==
    /\ pr[p].pc = "rm_ret"
    /\ LockFree
    /\ ctr' = ResetRemovalInProgress(ctr)
    /\ Goto(p, "done")
    /\ UNCHANGED <<cfgVars, regVars, rootExists, leases, osVars, lockHolder, waiters,
                   events, cntVars, calls>>

\* A faulty cleanupRunning: the force check is left out, so a running
\* container is killed whether or not the removal is forced.
cleanupRunningNoConflict(p) ==
    /\ pr[p].pc = "cl_running"
    /\ LockFree
    /\ IF ctr.Running
       THEN Set(p, [pr[p] EXCEPT !.pc = "k_start", !.killRet = "cl"])
       ELSE Set(p, CallStop(pr[p]))
    /\ UNCHANGED <<cfgVars, ctr, regVars, rootExists, leases, osVars, lockHolder, waiters,
                   events, cntVars, calls>>

\* cleanupContainer: a running container is refused unless forced, and
\* killed if forced; then containerStop.
cleanupRunning(p) ==
    /\ pr[p].pc = "cl_running"
    /\ LockFree
    /\ IF ctr.Running
       THEN IF ~pr[p].force
            THEN Set(p, GuardedReturn(pr[p], "ErrRunning"))
            ELSE Set(p, [pr[p] EXCEPT !.pc = "k_start", !.killRet = "cl"])
       ELSE Set(p, CallStop(pr[p]))
    /\ UNCHANGED <<cfgVars, ctr, regVars, rootExists, leases, osVars, lockHolder, waiters,
                   events, cntVars, calls>>

\* A faulty cleanupDead: the state is saved but Dead is not set.
cleanupDeadNotMarked(p) ==
    /\ pr[p].pc = "cl_dead"
    /\ LockFree
    /\ containersReplica' = CheckpointTo
    /\ Goto(p, "cl_layer")
    /\ UNCHANGED <<cfgVars, ctr, containers, linkIndex, names, rootExists, leases, osVars,
                   lockHolder, waiters, events, cntVars, calls>>

\* cleanupContainer: container.Lock(); container.Dead = true;
\* CheckpointTo; container.Unlock()
cleanupDead(p) ==
    /\ pr[p].pc = "cl_dead"
    /\ LockFree
    /\ ctr' = [ctr EXCEPT !.Dead = TRUE]
    /\ containersReplica' = CheckpointTo
    /\ Goto(p, "cl_layer")
    /\ UNCHANGED <<cfgVars, containers, linkIndex, names, rootExists, leases, osVars,
                   lockHolder, waiters, events, cntVars, calls>>

\* A faulty cleanupStorage: the error of ReleaseLayer or of the lease
\* Delete is recorded but not returned, and the cleanup goes on.
cleanupStorageGoesOn(p) ==
    /\ pr[p].pc = "cl_layer"
    /\ LockFree
    /\ \E ok \in BOOLEAN :
         IF ctr.RWLayer
         THEN /\ ctr' = IF ok THEN [ctr EXCEPT !.RWLayer = FALSE]
                              ELSE SetRemovalError(ctr, "ErrLayer")
              /\ layerReleases' = IF ok THEN layerReleases + 1 ELSE layerReleases
              /\ UNCHANGED <<leases, leaseDeletes, nameReleases>>
         ELSE IF UsesSnapshotter
         THEN /\ ctr' = IF ok /\ CID \in leases THEN ctr ELSE SetRemovalError(ctr, "ErrLease")
              /\ leases' = IF ok THEN leases \ {CID} ELSE leases
              /\ leaseDeletes' = IF ok /\ CID \in leases THEN leaseDeletes + 1 ELSE leaseDeletes
              /\ UNCHANGED <<layerReleases, nameReleases>>
         ELSE UNCHANGED <<ctr, leases, cntVars>>
    /\ Goto(p, "cl_lock2")
    /\ UNCHANGED <<cfgVars, regVars, rootExists, osVars, lockHolder, waiters, events, calls>>

\* cleanupContainer: release the RWLayer, or else the snapshot lease. ok:
\* the layer store / lease service does not fail. Deleting a lease that
\* is not there fails.
cleanupStorage(p) ==
    /\ pr[p].pc = "cl_layer"
    /\ LockFree
    /\ \E ok \in BOOLEAN :
         IF ctr.RWLayer
         THEN IF ok
              THEN /\ ctr' = [ctr EXCEPT !.RWLayer = FALSE]
                   /\ layerReleases' = layerReleases + 1
                   /\ Goto(p, "cl_lock2")
                   /\ UNCHANGED <<leases, leaseDeletes, nameReleases>>
              ELSE /\ ctr' = SetRemovalError(ctr, "ErrLayer")
                   /\ Set(p, GuardedReturn(pr[p], "ErrLayer"))
                   /\ UNCHANGED <<leases, cntVars>>
         ELSE IF UsesSnapshotter
         THEN IF ok /\ CID \in leases
              THEN /\ leases' = leases \ {CID}
                   /\ leaseDeletes' = leaseDeletes + 1
                   /\ Goto(p, "cl_lock2")
                   /\ UNCHANGED <<ctr, layerReleases, nameReleases>>
              ELSE /\ ctr' = SetRemovalError(ctr, "ErrLease")
                   /\ Set(p, GuardedReturn(pr[p], "ErrLease"))
                   /\ UNCHANGED <<leases, cntVars>>
         ELSE /\ Goto(p, "cl_lock2")
              /\ UNCHANGED <<ctr, leases, cntVars>>
    /\ UNCHANGED <<cfgVars, regVars, rootExists, osVars, lockHolder, waiters, events, calls>>

\* cleanupContainer: container.Lock() before the root is deleted.
cleanupLock(p) ==
    /\ pr[p].pc = "cl_lock2"
    /\ LockFree
    /\ lockHolder' = p
    /\ Goto(p, "cl_rmall")
    /\ UNCHANGED <<cfgVars, ctr, regVars, rootExists, leases, osVars, waiters,
                   events, cntVars, calls>>

\* A faulty cleanupRemoveAll: a failed removal of the root takes Dead
\* back so that the container looks alive to the retry.
cleanupRemoveAllResetsDead(p) ==
    /\ pr[p].pc = "cl_rmall"
    /\ lockHolder = p
    /\ lockHolder' = 0
    /\ \E ok \in BOOLEAN :
         IF ok \/ ~rootExists
         THEN /\ rootExists' = FALSE
              /\ Goto(p, "cl_unreg")
              /\ UNCHANGED ctr
         ELSE /\ ctr' = [SetRemovalError(ctr, "ErrFs") EXCEPT !.Dead = FALSE]
              /\ Set(p, GuardedReturn(pr[p], "ErrFs"))
              /\ UNCHANGED rootExists
    /\ UNCHANGED <<cfgVars, regVars, leases, osVars, waiters, events, cntVars, calls>>

\* cleanupContainer: containerfs.EnsureRemoveAll(container.Root);
\* container.Unlock(); an error is recorded and returned. An absent root
\* is no error.
cleanupRemoveAll(p) ==
    /\ pr[p].pc = "cl_rmall"
    /\ lockHolder = p
    /\ lockHolder' = 0
    /\ \E ok \in BOOLEAN :
         IF ok \/ ~rootExists
         THEN /\ rootExists' = FALSE
              /\ Goto(p, "cl_unreg")
              /\ UNCHANGED ctr
         ELSE /\ ctr' = SetRemovalError(ctr, "ErrFs")
              /\ Set(p, GuardedReturn(pr[p], "ErrFs"))
              /\ UNCHANGED rootExists
    /\ UNCHANGED <<cfgVars, regVars, leases, osVars, waiters, events, cntVars, calls>>

\* A faulty Deregister: daemon.containers.Delete is left out.
DeregisterStoreOnly ==
    /\ linkIndex' = {}
    /\ containersReplica' = containersReplica \ {CID}
    /\ names' = {}
    /\ nameReleases' = [nameReleases EXCEPT !.teardown = @ + Cardinality(linkIndex)]
    /\ UNCHANGED containers

\* linkIndex.delete / containers.Delete / containersReplica.Delete /
\* releaseName of both cleanups: the links of the container are dropped,
\* the container leaves the registry and the store, whose Delete frees the
\* names of the container, and the link names are released.
Deregister ==
    /\ linkIndex' = {}
    /\ containers' = containers \ {CID}
    /\ containersReplica' = containersReplica \ {CID}
    /\ names' = {}
    /\ nameReleases' = [nameReleases EXCEPT !.teardown = @ + Cardinality(linkIndex)]

\* cleanupContainer: deregister the container.
cleanupDeregister(p) ==
    /\ pr[p].pc = "cl_unreg"
    /\ Deregister
    /\ Goto(p, "cl_removed")
    /\ UNCHANGED <<cfgVars, ctr, rootExists, leases, osVars, lockHolder, waiters,
                   events, layerReleases, leaseDeletes, calls>>

\* A faulty cleanupRemoved: container.SetRemoved() is left out.
cleanupRemovedNotMarked(p) ==
    /\ pr[p].pc = "cl_removed"
    /\ LockFree
    /\ events' = [events EXCEPT !.destroy = @ + 1]
    /\ Set(p, GuardedReturn([pr[p] EXCEPT !.torn = TRUE], "ok"))
    /\ UNCHANGED <<cfgVars, ctr, regVars, rootExists, leases, osVars, lockHolder, waiters,
                   cntVars, calls>>

\* cleanupContainer: container.SetRemoved(); LogContainerEvent "destroy";
\* return nil
cleanupRemoved(p) ==
    /\ pr[p].pc = "cl_removed"
    /\ LockFree
    /\ ctr' = SetRemoved(ctr)
    /\ events' = [events EXCEPT !.destroy = @ + 1]
    /\ Set(p, GuardedReturn([pr[p] EXCEPT !.torn = TRUE], "ok"))
    /\ UNCHANGED <<cfgVars, regVars, rootExists, leases, osVars, lockHolder, waiters,
                   cntVars, calls>>

\* onlyCleanupContainer: container.Dead = true; CheckpointTo. No lock is
\* taken.
onlyCleanupDead(p) ==
    /\ pr[p].pc = "oc_dead"
    /\ ctr' = [ctr EXCEPT !.Dead = TRUE]
    /\ containersReplica' = CheckpointTo
    /\ Goto(p, "oc_rmall")
    /\ UNCHANGED <<cfgVars, containers, linkIndex, names, rootExists, leases, osVars,
                   lockHolder, waiters, events, cntVars, calls>>

\* onlyCleanupContainer of the windows build: if !force, release the
\* RWLayer or else the lease; the error is recorded and the cleanup goes
\* on. The delete.go one has no such step. [ctr, leases, layer, lease]
onlyCleanupStorage(c, force, ok) ==
    LET same == [ctr |-> c, leases |-> leases, layer |-> 0, lease |-> 0]
    IN  IF platform # "windows" \/ force THEN same
        ELSE IF c.RWLayer
        THEN IF ok
             THEN [same EXCEPT !.ctr = [c EXCEPT !.RWLayer = FALSE], !.layer = 1]
             ELSE [same EXCEPT !.ctr = [SetRemovalError(c, "ErrLayer") EXCEPT !.RWLayer = FALSE]]
        ELSE IF UsesSnapshotter
        THEN IF ok /\ CID \in leases
             THEN [same EXCEPT !.leases = leases \ {CID}, !.lease = 1]
             ELSE [same EXCEPT !.ctr = SetRemovalError(c, "ErrLease")]
        ELSE same

\* onlyCleanupContainer: the storage step of the windows build, then
\* containerfs.EnsureRemoveAll(container.Root) without the lock; its error
\* is only logged.
onlyCleanupRemoveAll(p) ==
    /\ pr[p].pc = "oc_rmall"
    /\ \E ok \in BOOLEAN, okfs \in BOOLEAN :
         LET r == onlyCleanupStorage(ctr, pr[p].ocForce, ok)
         IN  /\ ctr' = r.ctr
             /\ leases' = r.leases
             /\ layerReleases' = layerReleases + r.layer
             /\ leaseDeletes' = leaseDeletes + r.lease
             /\ UNCHANGED nameReleases
             /\ rootExists' = IF okfs THEN FALSE ELSE rootExists
    /\ Goto(p, "oc_unreg")
    /\ UNCHANGED <<cfgVars, regVars, osVars, lockHolder, waiters, events, calls>>

\* A faulty onlyCleanupDeregister: linkIndex.onlyDelete and the
\* releaseName loop are left out.
onlyCleanupDeregisterKeepsLinks(p) ==
    /\ pr[p].pc = "oc_unreg"
    /\ containers' = containers \ {CID}
    /\ containersReplica' = containersReplica \ {CID}
    /\ names' = {}
    /\ Goto(p, "oc_removed")
    /\ UNCHANGED <<cfgVars, ctr, linkIndex, rootExists, leases, osVars, lockHolder, waiters,
                   events, cntVars, calls>>

\* onlyCleanupContainer: deregister the container.
onlyCleanupDeregister(p) ==
    /\ pr[p].pc = "oc_unreg"
    /\ Deregister
    /\ Goto(p, "oc_removed")
    /\ UNCHANGED <<cfgVars, ctr, rootExists, leases, osVars, lockHolder, waiters,
                   events, layerReleases, leaseDeletes, calls>>

\* onlyCleanupContainer: container.OnlySetRemovalError(nil)
onlyCleanupRemoved(p) ==
    /\ pr[p].pc = "oc_removed"
    /\ ctr' = SetRemovalError(ctr, "nil")
    /\ Set(p, [pr[p] EXCEPT !.pc = "oc_event", !.torn = TRUE])
    /\ UNCHANGED <<cfgVars, regVars, rootExists, leases, osVars, lockHolder, waiters,
                   events, cntVars, calls>>

\* A faulty onlyCleanupEvent: the "destroy" event is not logged.
onlyCleanupEventNotLogged(p) ==
    /\ pr[p].pc = "oc_event"
    /\ Set(p, Done(pr[p], "ok"))
    /\ UNCHANGED <<cfgVars, ctr, regVars, rootExists, leases, osVars, lockHolder, waiters,
                   events, cntVars, calls>>

\* onlyCleanupContainer: LogContainerEvent "destroy"; return nil
onlyCleanupEvent(p) ==
    /\ pr[p].pc = "oc_event"
    /\ events' = [events EXCEPT !.destroy = @ + 1]
    /\ Set(p, Done(pr[p], "ok"))
    /\ UNCHANGED <<cfgVars, ctr, regVars, rootExists, leases, osVars, lockHolder, waiters,
                   cntVars, calls>>

\* OnlyContainerRm(name, config, force) of the windows build: an unknown
\* name is no error; forced, onlyCleanupContainer at once.
OnlyContainerRm(p) ==
    /\ Free(p)
    /\ platform = "windows"
    /\ calls < MaxCalls
    /\ calls' = calls + 1
    /\ \E name \in RmNames, force \in BOOLEAN :
         LET q == [IdleProc EXCEPT !.op = "OnlyContainerRm"]
         IN  IF ~GetContainer(name)
             THEN Start(p, Done(q, "ok"))
             ELSE IF force
             THEN Start(p, FastPath(q, force))
             ELSE Start(p, [q EXCEPT !.pc = "orm_pid"])
    /\ UNCHANGED <<cfgVars, ctr, regVars, rootExists, leases, osVars, lockHolder, waiters,
                   events, cntVars>>

\* OnlyContainerRm: if ctr.Pid == 0, onlyCleanupContainer; else return nil.
OnlyRmPid(p) ==
    /\ pr[p].pc = "orm_pid"
    /\ IF ctr.Pid = 0
       THEN Set(p, FastPath(pr[p], TRUE))
       ELSE Set(p, Done(pr[p], "ok"))
    /\ UNCHANGED <<cfgVars, ctr, regVars, rootExists, leases, osVars, lockHolder, waiters,
                   events, cntVars, calls>>

\* ------------------------------------------------------------ specification

\* The container's process and the daemon's exit handling.
Environment ==
    \/ ProcessExit
    \/ ExitEvent
    \/ WaiterDone
    \/ WaiterTimeout

\* Kill and containerStop, as called by cleanupContainer and ContainerStop.
KillAndStop(p) ==
    \/ StopStart(p)
    \/ StopSignalStep(p)
    \/ StopWait(p)
    \/ StopWait2(p)
    \/ KillStart(p)
    \/ KillSignal(p)
    \/ KillWait1(p)
    \/ KillDirect(p)
    \/ KillWait2(p)

\* The removal entry points and what they run.
Removal(p) ==
    \/ ContainerRm(p)
    \/ RmPid(p)
    \/ RmProbe(p)
    \/ RmGuard(p)
    \/ RmReget(p)
    \/ rmLink(p)
    \/ RmReturn(p)
    \/ cleanupRunning(p)
    \/ cleanupDead(p)
    \/ cleanupStorage(p)
    \/ cleanupLock(p)
    \/ cleanupRemoveAll(p)
    \/ cleanupDeregister(p)
    \/ cleanupRemoved(p)
    \/ onlyCleanupDead(p)
    \/ onlyCleanupRemoveAll(p)
    \/ onlyCleanupDeregister(p)
    \/ onlyCleanupRemoved(p)
    \/ onlyCleanupEvent(p)
    \/ OnlyContainerRm(p)
    \/ OnlyRmPid(p)

\* Callers remove the container concurrently.
Next ==
    \/ Environment
    \/ \E p \in Procs : Removal(p) \/ KillAndStop(p)

Spec == Init /\ [][Next]_vars

\* Callers stop the container concurrently.
NextStop ==
    \/ Environment
    \/ \E p \in Procs :
         \/ ContainerStop(p)
         \/ CancelRequest(p)
         \/ ContainerStopCheck(p)
         \/ ContainerStopProbe(p)
         \/ KillAndStop(p)

SpecStop == Init /\ [][NextStop]_vars

\* SpecStop with the background goroutine of killWithSignal running on (its
\* wait is bounded by the stop timeout of the container, so it returns),
\* and with the wait of containerStop returning when it can.
SpecStopLive ==
    /\ SpecStop
    /\ WF_vars(WaiterTimeout)
    /\ \A p \in Procs : WF_vars(StopWait(p))

\* Signals sent with killWithSignal, and the stop signals a container can
\* be configured with ("": none configured).
Signals == {"SIGKILL", "SIGTERM", "SIGUSR1"}
StopSignalConfigs == {"", "SIGTERM", "SIGUSR1"}

\* Init with the container in any state killWithSignal looks at: running
\* or not, paused, restarting, with or without a configured stop signal.
InitSignal ==
    /\ platform \in {"unix", "windows"}
    /\ storage \in {"layer", "lease", "none"}
    /\ \E running \in BOOLEAN, paused \in BOOLEAN, restarting \in BOOLEAN,
          stopSignal \in StopSignalConfigs :
         /\ ctr = [InitCtr(running, storage = "layer") EXCEPT
                     !.Paused = running /\ paused,
                     !.Restarting = running /\ restarting,
                     !.StopSignal = stopSignal]
         /\ procAlive = running
    /\ containers = {CID}
    /\ containersReplica = {CID}
    /\ linkIndex = {LinkName}
    /\ names = {CID, LinkName}
    /\ rootExists = TRUE
    /\ leases = IF storage = "lease" THEN {CID} ELSE {}
    /\ sigkilled = FALSE
    /\ lockHolder = 0
    /\ waiters = 0
    /\ events = [destroy |-> 0, stop |-> 0, kill |-> {}]
    /\ layerReleases = 0
    /\ leaseDeletes = 0
    /\ nameReleases = [link |-> 0, teardown |-> 0]
    /\ calls = 0
    /\ pr = [p \in Procs |-> IdleProc]

\* killWithSignal(container, sig) called with any signal.
SignalContainer ==
    /\ LockFree
    /\ \E sig \in Signals, rtFault \in BOOLEAN :
         ApplySignal(killWithSignal(ctr, sig, rtFault), sig, FALSE)
    /\ UNCHANGED <<cfgVars, containers, linkIndex, names, rootExists, leases, procAlive,
                   lockHolder, cntVars, calls, pr>>

\* Signals are sent to the container in any of its states.
NextSignal ==
    \/ Environment
    \/ SignalContainer

SpecSignal == InitSignal /\ [][NextSignal]_vars

\* ------------------------------------------------------------------ claims

\* errdefs.Conflict results of a removal: "removal ... is already in
\* progress" and "cannot remove a running container".
Conflicts == {"ErrInProgress", "ErrRunning"}

\* p and q are two ContainerRm calls that overlapped in time, both found a
\* pid and a live process (they went to the guard) and both have returned.
BothLive(p, q) ==
    /\ p # q
    /\ \A x \in {p, q} :
         /\ pr[x].op = "ContainerRm"
         /\ pr[x].pc = "done"
         /\ pr[x].ovl
         /\ pr[x].path \in {"guard", "refused"}

\* C1 as stated: of two overlapping ContainerRm calls on a container whose
\* process is alive, exactly one tears the container down and returns
\* success and the other returns a Conflict error.
C1_ExactlyOneSucceeds ==
    \A p, q \in Procs :
        BothLive(p, q) /\ ctr.Pid > 0 /\ procAlive =>
            \/ pr[p].res = "ok" /\ pr[p].torn /\ pr[q].res \in Conflicts
            \/ pr[q].res = "ok" /\ pr[q].torn /\ pr[p].res \in Conflicts

\* C1 amended: of two overlapping ContainerRm calls on a container whose
\* process is alive, at most one completes the teardown and at most one is
\* refused as "already in progress", and a refused call returns that
\* Conflict.
C1_AtMostOneTeardown ==
    \A p, q \in Procs :
        BothLive(p, q) =>
            /\ ~(pr[p].torn /\ pr[q].torn)
            /\ ~(pr[p].res = "ErrInProgress" /\ pr[q].res = "ErrInProgress")
            /\ (pr[p].path = "refused" => pr[p].res = "ErrInProgress")

\* Two overlapping calls have returned: one tore the container down, the
\* other was refused.
C1_Witness ==
    \E p, q \in Procs :
        /\ BothLive(p, q)
        /\ pr[p].res = "ok" /\ pr[p].torn
        /\ pr[q].res = "ErrInProgress"

\* Positions from which the next step of a call is a teardown step of
\* cleanupContainer / of onlyCleanupContainer.
GuardedTeardownPcs == {"cl_layer", "cl_lock2", "cl_rmall", "cl_unreg"}
FastTeardownPcs == {"oc_rmall", "oc_unreg"}

InTeardown(pcs) == {p \in Procs : pr[p].pc \in pcs}

\* A call that found RemovalInProgress set has returned Conflict.
RefusedAtOnce ==
    \A p \in Procs :
        pr[p].path = "refused" => pr[p].pc = "done" /\ pr[p].res = "ErrInProgress"

\* C2 as stated: at most one call is executing teardown steps, whether it
\* entered through cleanupContainer or through onlyCleanupContainer, and a
\* call that finds RemovalInProgress set returns Conflict at once.
C2_OneTeardownAnyPath ==
    /\ Cardinality(InTeardown(GuardedTeardownPcs \cup FastTeardownPcs)) <= 1
    /\ RefusedAtOnce

\* C2 amended: at most one call is executing the teardown steps of
\* cleanupContainer, it holds the RemovalInProgress guard while it does,
\* and a call that finds RemovalInProgress set returns Conflict at once.
C2_OneGuardedTeardown ==
    /\ Cardinality(InTeardown(GuardedTeardownPcs)) <= 1
    /\ (InTeardown(GuardedTeardownPcs) # {} => ctr.RemovalInProgress)
    /\ RefusedAtOnce

\* One call deletes the root in cleanupContainer, a call that overlaps it
\* was refused.
C2_Witness ==
    \E p, q \in Procs :
        /\ pr[p].pc = "cl_rmall"
        /\ pr[q].path = "refused" /\ pr[q].pc = "done" /\ pr[q].ovl

\* C3: on both removal paths no call is about to run ReleaseLayer, the
\* lease Delete or EnsureRemoveAll with Dead still false.
C3_DeadBeforeRelease ==
    \A p \in Procs :
        pr[p].pc \in {"cl_layer", "cl_lock2", "cl_rmall", "oc_rmall"} => ctr.Dead

\* A call of each path is about to release: nothing is released yet, the
\* root is there and Dead is set.
C3_Witness ==
    \E p, q \in Procs :
        /\ pr[p].pc = "cl_layer"
        /\ pr[q].pc = "oc_rmall"
        /\ ctr.Dead /\ rootExists /\ layerReleases = 0 /\ leaseDeletes = 0

KillPcs == {"k_start", "k_sig", "k_wait1", "k_direct", "k_wait2"}

\* This step is Kill returning nil to caller p.
KillReturnsNil(p) ==
    /\ pr[p].pc \in KillPcs
    /\ pr'[p] = AfterKill(pr[p], "nil")

\* C4 as stated: Kill returns success only if the container is not running
\* when Kill returns.
C4_SuccessOnlyIfNotRunning ==
    [][\A p \in Procs : KillReturnsNil(p) => ~ctr'.Running]_vars

\* C4 amended: Kill returns success only if, when it returns, the
\* container is not running or its process no longer exists.
C4_SuccessOnlyIfStoppedOrGone ==
    [][\A p \in Procs : KillReturnsNil(p) => ~ctr'.Running \/ ~procAlive']_vars

\* Kill has returned nil to cleanupContainer, which goes on to
\* containerStop, and the container is still marked running.
C4_Witness ==
    \E p \in Procs :
        /\ pr[p].pc = "s_start" /\ pr[p].stopRet = "cl"
        /\ ctr.Running /\ ~procAlive

\* C5: a containerStop in progress has invoked Kill at most once, exactly
\* once if and only if its wait timed out, and never with a negative
\* timeout.
C5_KillOnceOnTimeout ==
    \A p \in Procs :
        pr[p].stopRet # "none" =>
            /\ pr[p].kills <= 1
            /\ (pr[p].timedOut <=> pr[p].kills = 1)
            /\ (pr[p].T < 0 => pr[p].kills = 0)
            /\ (pr[p].pc \in KillPcs \cup {"s_wait2"} => pr[p].kills = 1)

\* One containerStop with a timeout >= 0 timed out and is in its Kill;
\* another with a negative timeout is waiting on the running container.
C5_Witness ==
    \E p, q \in Procs :
        /\ pr[p].pc = "k_sig" /\ pr[p].killRet = "stop" /\ pr[p].T >= 0 /\ pr[p].kills = 1
        /\ pr[q].pc = "s_wait" /\ pr[q].T < 0 /\ pr[q].kills = 0
        /\ ctr.Running

\* No call is in flight.
Quiet == \A q \in Procs : ~InFlight(pr[q])

\* What a call that only returns leaves alone.
NoEffect ==
    UNCHANGED <<cfgVars, ctr, regVars, rootExists, leases, osVars, lockHolder, waiters,
                events, cntVars>>

ReleaseLayerFails(p) ==
    /\ cleanupStorage(p)
    /\ ctr.RWLayer
    /\ layerReleases' = layerReleases

\* A removal that retried after a ReleaseLayer failure, on its own and
\* with the container no longer running, has returned: it succeeded.
RetrySucceeds ==
    \A p \in Procs :
        pr[p].retry /\ pr[p].pc = "done" /\ ~pr[p].ovl => pr[p].res = "ok"

\* C7: when ReleaseLayer fails, cleanupContainer returns the error, the
\* registry, the store, the root, the links and the names are left as they
\* are, the container is not marked Removed and the error is recorded; for
\* a removal no other call overlaps, the container is still registered,
\* stored, on disk and not Removed. A later removal, of the container no
\* longer running, succeeds.
C7_ReleaseFailureKeepsContainer ==
    [][/\ \A p \in Procs :
            ReleaseLayerFails(p) =>
                /\ pr'[p].pc = "rm_ret" /\ pr'[p].res = "ErrLayer"
                /\ UNCHANGED <<regVars, rootExists, leases>>
                /\ ctr'.Removed = ctr.Removed
                /\ ctr'.RemovalError = "ErrLayer"
                /\ ~pr[p].ovl =>
                      /\ CID \in containers' /\ CID \in containersReplica'
                      /\ rootExists' /\ ~ctr'.Removed
       /\ RetrySucceeds']_vars

\* After a ReleaseLayer failure a later removal has torn the container
\* down and returned success.
C7_Witness ==
    \E p \in Procs :
        /\ pr[p].retry /\ pr[p].pc = "done" /\ ~pr[p].ovl
        /\ pr[p].torn /\ pr[p].res = "ok"
        /\ CID \notin containers /\ ctr.Removed

\* C8: a removal that completed successfully released the writable layer
\* exactly once and no lease if the container held a layer, and deleted the
\* lease exactly once and released no layer if it held a lease; a container
\* that owns a layer or a lease is never deregistered with neither released.
C8_ExactlyOneReleased ==
    /\ \A p \in Procs :
         pr[p].pc = "done" /\ pr[p].torn /\ pr[p].res = "ok" =>
             /\ storage = "layer" => layerReleases = 1 /\ leaseDeletes = 0
             /\ storage = "lease" => leaseDeletes = 1 /\ layerReleases = 0
    /\ CID \notin containers /\ storage # "none" => layerReleases + leaseDeletes >= 1

\* C9: a ContainerRm call goes to the RemovalInProgress guard only if the
\* container has a pid and the liveness probe reports its process alive;
\* a call on the fast path leaves RemovalInProgress alone and returns
\* success.
C9_DeadSkipsGuard ==
    [][\A p \in Procs :
          /\ pr[p].op = "ContainerRm" /\ pr[p].pc # "rm_guard" /\ pr'[p].pc = "rm_guard" =>
                pidExists(ctr.Pid)
          /\ pr[p].path = "fast" /\ pr'[p] # pr[p] =>
                /\ ctr'.RemovalInProgress = ctr.RemovalInProgress
                /\ pr'[p].pc = "done" => pr'[p].res = "ok"]_vars

\* This step completes caller p's teardown.
CompletesTeardown(p) == ~pr[p].torn /\ pr'[p].torn

\* This step is a ContainerRm of caller p, which tore the container down,
\* returning success.
ReturnsTornDown(p) ==
    /\ pr[p].pc # "done" /\ pr'[p].pc = "done"
    /\ pr'[p].op = "ContainerRm" /\ pr'[p].torn /\ pr'[p].res = "ok"

\* C10 as stated: when a ContainerRm that completed the teardown returns
\* success, the container is marked Removed and its removal error is nil.
C10_RemovedAndErrorCleared ==
    [][\A p \in Procs :
          ReturnsTornDown(p) => ctr'.Removed /\ ctr'.RemovalError = "nil"]_vars

\* C10 amended: the step that completes a teardown marks the container
\* Removed and clears its removal error, and when the call returns success
\* the container is marked Removed.
C10_RemovedOnSuccess ==
    [][\A p \in Procs :
          /\ CompletesTeardown(p) => ctr'.Removed /\ ctr'.RemovalError = "nil"
          /\ ReturnsTornDown(p) => ctr'.Removed]_vars

\* A forced removal of a running container has killed it, torn it down
\* through cleanupContainer and returned success.
C10_Witness ==
    \E p \in Procs :
        /\ pr[p].op = "ContainerRm" /\ pr[p].pc = "done"
        /\ pr[p].path = "guard" /\ pr[p].torn /\ pr[p].res = "ok"
        /\ "SIGKILL" \in events.kill
        /\ ctr.Removed /\ ctr.RemovalError = "nil"

\* ------------------------------------------------------------------- C11

\* Caller p takes a step of its own.
Steps(p) == pr'[p].pc # pr[p].pc

\* Caller p's cleanupContainer finds the container running and the
\* removal not forced.
UnforcedOnRunning(p) ==
    pr[p].pc = "cl_running" /\ Steps(p) /\ ctr.Running /\ ~pr[p].force

\* Caller p is inside the Kill that its cleanupContainer called.
InCleanupKill(p) == pr[p].killRet = "cl" /\ Steps(p)

\* C11: cleanupContainer on a running container with force unset returns
\* the Conflict error and changes nothing: no signal, Dead as it was, no
\* layer, lease or directory released, the container still registered.
\* With force set, no step of the Kill sets Dead or releases anything,
\* and when the Kill fails the removal returns an error straight away.
C11_RefusalAndKillFailure ==
    [][\A p \in Procs :
         /\ UnforcedOnRunning(p) =>
               /\ pr'[p] = GuardedReturn(pr[p], "ErrRunning")
               /\ UNCHANGED <<ctr, regVars, rootExists, leases, osVars, waiters,
                              events, cntVars>>
         /\ InCleanupKill(p) =>
               /\ ctr'.Dead = ctr.Dead
               /\ UNCHANGED <<containers, linkIndex, names, rootExists, leases, cntVars>>
               /\ pr'[p].killRet # "cl" =>
                     \/ pr'[p] = CallStop(pr[p])
                     \/ pr'[p] = GuardedReturn(pr[p], "ErrKill")]_vars

\* One removal was refused on the running container and a forced one has
\* failed in Kill: the container is running, not dead, registered, with
\* its root, and nothing was released.
C11_Witness ==
    \E p, q \in Procs :
        /\ pr[p].pc = "done" /\ pr[p].res = "ErrRunning"
        /\ pr[q].pc = "rm_ret" /\ pr[q].res = "ErrKill"
        /\ ctr.Running /\ ~ctr.Dead /\ rootExists /\ CID \in containers
        /\ layerReleases = 0 /\ leaseDeletes = 0

\* ------------------------------------------------------------------- C12

\* C12: in every reachable state in which the container is marked
\* Removed, its writable layer or its lease (when it had one) has been
\* released successfully and its root directory has been removed.
C12_RemovedMeansReleased ==
    ctr.Removed =>
        /\ storage = "layer" => layerReleases >= 1
        /\ storage = "lease" => leaseDeletes >= 1
        /\ ~rootExists

\* ------------------------------------------------------------------- C13

\* C13: in every reachable state in which the container is marked
\* Removed, it is absent from the in-memory registry and from the
\* persisted metadata store, and none of its names or identifiers
\* resolves.
C13_RemovedMeansAbsent ==
    ctr.Removed =>
        /\ CID \notin containers
        /\ CID \notin containersReplica
        /\ \A name \in RmNames : ~GetContainer(name)

\* ------------------------------------------------------------------- C14

\* Caller p's removal runs EnsureRemoveAll on the root of the container.
DeletesRoot(p) == pr[p].pc \in {"cl_rmall", "oc_rmall"} /\ Steps(p)

\* C14: on every removal path the root directory of the container is
\* deleted only while the deleting call holds the exclusive lock of the
\* container.
C14_RootDeletedUnderLock ==
    [][\A p \in Procs : DeletesRoot(p) => lockHolder = p]_vars

\* ------------------------------------------------------------------- C15

\* A call has torn the container down and returned success.
RemovalSucceeded ==
    \E p \in Procs : pr[p].torn /\ pr[p].pc = "done" /\ pr[p].res = "ok"

\* C15: after a removal of the container has completed successfully the
\* link index holds no entry of it, none of its names is still reserved,
\* and across any interleaving of removal calls its link name has been
\* released exactly once.
C15_NamesReleasedOnce ==
    RemovalSucceeded =>
        /\ linkIndex = {}
        /\ names = {}
        /\ nameReleases.link + nameReleases.teardown = 1

\* C15 as the code has it: after a successful removal the link index is
\* empty and no name is reserved; the teardowns together released the
\* link name at most once, and it was released at least once, by a
\* teardown or by rmLink.
C15_NamesFreedTeardownOnce ==
    RemovalSucceeded =>
        /\ linkIndex = {}
        /\ names = {}
        /\ nameReleases.teardown <= 1
        /\ nameReleases.link + nameReleases.teardown >= 1

\* Two overlapping calls have both torn the container down and returned
\* success, and the link name was released once, by one of them.
C15_Witness ==
    \E p, q \in Procs :
        /\ p # q
        /\ \A x \in {p, q} : pr[x].torn /\ pr[x].pc = "done" /\ pr[x].res = "ok"
        /\ linkIndex = {} /\ names = {}
        /\ nameReleases = [link |-> 0, teardown |-> 1]

\* ------------------------------------------------------------------- C16

LeavesTeardown(p) ==
    /\ pr[p].pc \notin {"done", "rm_ret"}
    /\ pr'[p].pc \in {"done", "rm_ret"}
    /\ pr'[p].torn

GuardOwnerReturns(p) ==
    pr[p].path = "guard" /\ pr[p].pc # "done" /\ pr'[p].pc = "done"

\* Caller p's ContainerRm finds the guard taken.
FindsGuardTaken(p) ==
    pr[p].pc = "rm_guard" /\ Steps(p) /\ ctr.RemovalInProgress

\* Some call that acquired the guard is still in flight.
GuardOwned == \E q \in Procs : pr[q].path = "guard" /\ InFlight(pr[q])

\* C17: when a ContainerRm call that acquired the removal-in-progress
\* guard returns, with whatever result, RemovalInProgress is false
\* afterwards; a call rejected with Conflict leaves the guard of its
\* owner set; the guard is set exactly while its owner is in flight.
C17_GuardClearedOnReturn ==
    [][/\ \A p \in Procs :
            /\ GuardOwnerReturns(p) => ~ctr'.RemovalInProgress
            /\ FindsGuardTaken(p) =>
                  /\ pr'[p].pc = "done" /\ pr'[p].res = "ErrInProgress"
                  /\ ctr' = ctr
       /\ ctr'.RemovalInProgress <=> GuardOwned']_vars

\* A call that held the guard has returned an error, the call that was
\* rejected meanwhile has returned too, and the guard is clear.
C17_Witness ==
    \E p, q \in Procs :
        /\ pr[p].pc = "done" /\ pr[p].path = "guard" /\ pr[p].res \notin {"ok", "none"}
        /\ pr[q].pc = "done" /\ pr[q].path = "refused" /\ pr[q].res = "ErrInProgress"
        /\ ~ctr.RemovalInProgress

\* ------------------------------------------------------------------- C18

\* Caller p's containerStop sends its stop signal.
SendsStopSignal(p) == pr[p].pc = "s_sig" /\ Steps(p)

\* The first wait of caller p's containerStop ends with the container
\* not running.
StoppedInTime(p) == pr[p].pc = "s_wait" /\ Steps(p) /\ ~ctr.Running

\* C18: containerStop on a running container sends the resolved stop
\* signal, and when the container is not running before the wait
\* expires it returns nil, one "stop" event is emitted and Kill is not
\* invoked.
C18_GracefulStop ==
    [][\A p \in Procs :
         /\ SendsStopSignal(p) =>
               /\ ctr.Running => pr[p].sig = StopSignal(ctr)
               /\ events'.kill \subseteq events.kill \cup {pr[p].sig}
               /\ events'.stop = events.stop
         /\ StoppedInTime(p) =>
               /\ pr'[p] = AfterStop(pr[p], "nil")
               /\ events'.stop = events.stop + 1
               /\ events'.kill = events.kill
               /\ pr[p].kills = 0 /\ ~pr[p].timedOut
               /\ UNCHANGED <<ctr, sigkilled>>]_vars

\* A ContainerStop on the windows build has returned success after its
\* stop signal was logged: one "stop" event, no SIGKILL.
C18_Witness ==
    \E p \in Procs :
        /\ pr[p].op = "ContainerStop" /\ pr[p].pc = "done" /\ pr[p].res = "ok"
        /\ ~pr[p].ovl
        /\ events.stop = 1 /\ events.kill = {"SIGTERM"}
        /\ ~sigkilled /\ ~ctr.Running

\* ------------------------------------------------------------------- C19

\* C19: once Dead is set on the container no step of a stop, a kill or a
\* removal, failed and retried removals included, resets it.
C19_DeadIsNeverReset ==
    [][ctr.Dead => ctr'.Dead]_vars

\* A removal failed after it had set Dead, and a later removal of the
\* container, still dead, is in its cleanup.
C19_Witness ==
    \E p \in Procs :
        /\ ctr.Dead
        /\ ctr.RemovalError \in {"ErrLayer", "ErrLease", "ErrFs"}
        /\ pr[p].pc \in {"cl_running", "cl_dead", "oc_dead"}

\* ------------------------------------------------------------------- C20

\* EnsureRemoveAll fails in caller p's removal: the root was there and is
\* still there after the step.
RemoveAllFails(p) == DeletesRoot(p) /\ rootExists /\ rootExists'

\* C20: on every removal path, when the removal of the root directory
\* fails the call returns an error, the error is stored in the removal
\* error of the container, and the container stays registered, keeps its
\* links and names and is not marked Removed.
C20_RemoveAllFailureIsFatal ==
    [][\A p \in Procs :
         RemoveAllFails(p) =>
             /\ pr'[p].pc \in {"done", "rm_ret"}
             /\ pr'[p].res \notin {"ok", "none"}
             /\ ctr'.RemovalError = pr'[p].res
             /\ ~ctr'.Removed
             /\ UNCHANGED regVars]_vars

\* ------------------------------------------------------------------- C21

\* The positions at which a removal releases the layer or the lease,
\* deletes the root or deregisters the container.
DestructivePcs == {"cl_layer", "cl_rmall", "cl_unreg", "oc_rmall", "oc_unreg"}

\* Caller p's removal executes a destructive teardown step.
Destroys(p) == pr[p].pc \in DestructivePcs /\ Steps(p)

\* C21: no destructive teardown step (layer or lease release, deletion of
\* the root, deregistration) is executed while the state of the container
\* is still Running, on any removal path and under any interleaving with
\* the processing of exit events.
C21_NoTeardownWhileRunning ==
    [][\A p \in Procs : Destroys(p) => ~ctr.Running]_vars

\* ------------------------------------------------------------------- C22

\* A background goroutine of killWithSignal ends in this step.
WaiterEnds == waiters' = waiters - 1

\* C22: when the signal delivery of killWithSignal reports not-found for a
\* container still marked Running, a background goroutine waits and the
\* container eventually becomes not running; the goroutine calls the exit
\* handling only if the container is still running when its wait ends.
C22_StuckContainerStops ==
    /\ (waiters > 0 /\ ctr.Running) ~> ~ctr.Running
    /\ [][/\ waiters' > waiters => ctr.Running /\ ~procAlive /\ ctr'.Running
          /\ WaiterEnds /\ ~ctr.Running => ctr' = ctr
          /\ WaiterEnds /\ ctr.Running => ~ctr'.Running]_vars

\* The process of the running container is gone, its exit event was not
\* processed and a background goroutine is waiting.
C22_Witness ==
    waiters > 0 /\ ctr.Running /\ ~procAlive

\* ------------------------------------------------------------------- C23

\* Caller p's containerStop is in the wait of a negative timeout, the
\* context of the caller is cancelled and the container is running, its
\* process alive and never sent SIGKILL.
CancelledInfiniteWait(p) ==
    /\ pr[p].pc = "s_wait" /\ pr[p].T < 0 /\ pr[p].cancelled
    /\ ctr.Running /\ procAlive /\ ~sigkilled

EndsFirstWait(p) == pr[p].pc = "s_wait" /\ Steps(p)

ContainerStopSucceeds(p) ==
    /\ pr[p].op = "ContainerStop"
    /\ pr[p].pc \notin {"idle", "done"}
    /\ pr'[p].pc = "done" /\ pr'[p].res = "ok"

\* This step is containerStop returning nil to caller p.
containerStopSucceeds(p) ==
    /\ pr[p].stopRet # "none"
    /\ Steps(p)
    /\ pr'[p] = AfterStop(pr[p], "nil")

\* This step is a success of a stop or emits a "stop" event.
StopSucceeds ==
    \/ \E p \in Procs : ContainerStopSucceeds(p) \/ containerStopSucceeds(p)
    \/ events'.stop # events.stop

\* C24: ContainerStop and containerStop return success, and emit the
\* "stop" event, only if the container is not running when the call
\* returns.
C24_SuccessOnlyIfNotRunning ==
    [][StopSucceeds => ~ctr'.Running]_vars

\* C24 as the code has it: they return success, and emit the "stop"
\* event, only if on return the container is not running or its process
\* no longer exists.
C24_SuccessOnlyIfStoppedOrGone ==
    [][StopSucceeds => ~ctr'.Running \/ ~procAlive']_vars

\* A ContainerStop has returned success and a "stop" event was emitted
\* while the container, whose process is gone, is still marked running.
C24_Witness ==
    \E p \in Procs :
        /\ pr[p].op = "ContainerStop" /\ pr[p].pc = "done" /\ pr[p].res = "ok"
        /\ events.stop > 0
        /\ ctr.Running /\ ~procAlive

\* ------------------------------------------------------------------- C25

\* Caller p's Kill takes a step from position pc.
KillStepAt(p, pc) == pr[p].pc = pc /\ Steps(p)

\* What the waits of Kill do, and when the direct signal is sent: after
\* the first wait timed out, once, and never when the first wait saw the
\* container stop; the last wait gives nil or the "did not receive an
\* exit event" error.
KillWaits(p) ==
    /\ KillStepAt(p, "k_wait1") =>
          IF ctr.Running
          THEN pr'[p].pc = "k_direct"
          ELSE pr'[p] = AfterKill(pr[p], "nil") /\ UNCHANGED sigkilled
    /\ pr'[p].pc = "k_direct" /\ Steps(p) => pr[p].pc = "k_wait1"
    /\ KillStepAt(p, "k_wait2") =>
          pr'[p] = AfterKill(pr[p], IF ctr.Running THEN "ErrNoExit" ELSE "nil")

\* C25: in Kill, when the first wait after SIGKILL ends without the
\* not-running transition the OS process is signalled directly, once,
\* and a second bounded wait follows; if that one ends without the
\* transition too Kill returns the "did not receive an exit event"
\* error. The direct signal is never sent when the first wait sees the
\* transition.
C25_DirectKillThenSecondWait ==
    [][\A p \in Procs :
         /\ KillWaits(p)
         /\ KillStepAt(p, "k_direct") => pr'[p].pc = "k_wait2"]_vars

\* C25 as the code has it: the second wait follows unless the direct
\* signal fails; with the process gone Kill returns nil, with another
\* error it returns that error.
C25_DirectKillMayReturn ==
    [][\A p \in Procs :
         /\ KillWaits(p)
         /\ KillStepAt(p, "k_direct") =>
               \/ pr'[p].pc = "k_wait2"
               \/ ~procAlive /\ pr'[p] = AfterKill(pr[p], "nil")
               \/ procAlive /\ pr'[p] = AfterKill(pr[p], "ErrSystem")]_vars

\* The Kill of a containerStop signalled the process directly, its
\* second wait timed out and it returned the "did not receive an exit
\* event" error.
C25_Witness ==
    \E p \in Procs :
        pr[p].pc = "s_wait2" /\ pr[p].kerr = "ErrNoExit" /\ sigkilled /\ ctr.Running

\* ------------------------------------------------------------------- C26

\* The signal is the configured stop signal of container c, or SIGKILL. A
\* container with no configured stop signal has none to compare with.
MatchesStopSignal(c, sig) == sig = "SIGKILL" \/ (c.StopSignal # "" /\ sig = c.StopSignal)

\* C26: killWithSignal arms the exit-on-next flag of the container if and
\* only if the signal is its configured stop signal or SIGKILL; for
\* another signal the flag is left as it was and nothing is resumed.
C26_ArmsOnlyOnStopSignal ==
    \A sig \in Signals, rtFault \in BOOLEAN :
        LET r == killWithSignal(ctr, sig, rtFault)
        IN  ctr.Running =>
              /\ r.ctr.ExitOnNext = (ctr.ExitOnNext \/ MatchesStopSignal(ctr, sig))
              /\ ~MatchesStopSignal(ctr, sig) => ~r.resume

\* The signal arms the flag of container c: it is SIGKILL, or the
\* configured stop signal, or any signal when none is configured.
ArmsExitOnNext(c, sig) == c.StopSignal = "" \/ MatchesStopSignal(c, sig)

\* C26 as the code has it: for a container with a configured stop signal
\* the flag is armed if and only if the signal is that one or SIGKILL;
\* with none configured every signal arms it. A signal that does not arm
\* the flag resumes nothing.
C26_ArmsUnlessOtherSignalConfigured ==
    \A sig \in Signals, rtFault \in BOOLEAN :
        LET r == killWithSignal(ctr, sig, rtFault)
        IN  ctr.Running =>
              /\ r.ctr.ExitOnNext = (ctr.ExitOnNext \/ ArmsExitOnNext(ctr, sig))
              /\ ~ArmsExitOnNext(ctr, sig) => ~r.resume

\* A running container configured with another stop signal was sent
\* SIGUSR1 only and its flag is not armed.
C26_Witness ==
    /\ ctr.Running /\ ctr.StopSignal = "SIGTERM"
    /\ events.kill = {"SIGUSR1"}
    /\ ~ctr.ExitOnNext

\* ------------------------------------------------------------------- C27

\* Caller p's ContainerRm, holding the guard, finds that the container
\* was deregistered since it was resolved.
FindsDeregistered(p) ==
    pr[p].pc = "rm_reget" /\ Steps(p) /\ CID \notin containers

\* Caller p's ContainerRm returns from there.
ReturnsSilently(p) ==
    pr[p].pc = "rm_ret" /\ Steps(p) /\ pr[p].res = "ok" /\ ~pr[p].torn

\* C27: a ContainerRm that finds, once it holds the guard, that another
\* removal has deregistered the container since it was resolved returns
\* success without any teardown step (Dead not touched, nothing released
\* or deleted) and without a "destroy" event.
C27_SilentNoOp ==
    [][\A p \in Procs :
         /\ FindsDeregistered(p) =>
               /\ pr'[p] = GuardedReturn(pr[p], "ok") /\ ~pr'[p].torn
               /\ UNCHANGED <<ctr, regVars, rootExists, leases, osVars, waiters,
                              events, cntVars>>
         /\ ReturnsSilently(p) =>
               /\ pr'[p] = Done(pr[p], "ok")
               /\ ctr' = ResetRemovalInProgress(ctr)
               /\ UNCHANGED <<regVars, rootExists, leases, osVars, waiters,
                              events, cntVars>>]_vars

\* A guarded ContainerRm has returned success without tearing anything
\* down, after the other call deregistered the container and emitted the
\* one "destroy" event; no link was removed.
C27_Witness ==
    \E p, q \in Procs :
        /\ p # q
        /\ pr[p].pc = "done" /\ pr[p].path = "guard" /\ pr[p].res = "ok" /\ ~pr[p].torn
        /\ pr[q].torn
        /\ CID \notin containers
        /\ nameReleases.link = 0
        /\ events.destroy = 1

\* ------------------------------------------------------------------- C28

\* C28: killWithSignal on a container that is restarting delivers no
\* signal to the runtime task, resumes nothing and returns no error.
C28_RestartingIsSkipped ==
    \A sig \in Signals, rtFault \in BOOLEAN :
        LET r == killWithSignal(ctr, sig, rtFault)
        IN  ctr.Running /\ ctr.Restarting =>
              /\ r.err = "nil"
              /\ ~r.delivered /\ ~r.resume /\ ~r.spawn

\* A restarting container, paused too, was sent a signal that armed its
\* flag; its process was not signalled and no "kill" event was logged.
C28_Witness ==
    /\ ctr.Running /\ ctr.Restarting /\ ctr.Paused
    /\ ctr.ExitOnNext /\ ctr.HasBeenManuallyStopped
    /\ procAlive /\ ~sigkilled /\ events.kill = {}

====
